---- MODULE Spec2Model ----
(***************************************************************************)
(* MCVecLib: the 2x2 and 3x3 matrix namespaces (Mat2, Mat3) and the vector *)
(* primitives they call.                                                   *)
(*                                                                         *)
(* A JavaScript number is modelled as an exact value [n |-> numerator,     *)
(* d |-> denominator] in lowest terms with d >= 0.  d = 0 encodes the      *)
(* IEEE-754 specials: 1/0 is Infinity, -1/0 is -Infinity and 0/0 is NaN.   *)
(* Rounding of doubles and the sign of zero are not modelled: every input  *)
(* is drawn from values on which the arithmetic below is exact.            *)
(*                                                                         *)
(* Objects live on a heap (a sequence, a reference is an index into it).   *)
(* The functions of the library are operators on values, translated from   *)
(* their bodies; the _call operators run one exported function on a heap   *)
(* and allocate the object it returns.                                    *)
(***************************************************************************)
EXTENDS Integers, Sequences, FiniteSets, TLC

(***************************************************************************)
(* Bounds of the model.                                                    *)
(***************************************************************************)
\* largest magnitude of an integer coefficient drawn as an input
MaxCoef == 1
\* how many coefficients of a 3x3 input may differ from its base matrix
MaxWeight == 2
\* how many elements an input array may have beyond the required count
MaxExtra == 1
\* largest magnitude of an integer component of a buildTNB input
MaxTNB == 4

(***************************************************************************)
(* Numbers.                                                                *)
(***************************************************************************)
AbsInt(i) == IF i < 0 THEN -i ELSE i

SignInt(i) == IF i < 0 THEN -1 ELSE IF i > 0 THEN 1 ELSE 0

RECURSIVE GCD(_, _)
GCD(a, b) == IF b = 0 THEN a ELSE GCD(b, a % b)

\* the number n/d, in lowest terms
Num(n, d) ==
    IF d = 1 THEN [n |-> n, d |-> 1]
    ELSE IF d = 0 THEN [n |-> SignInt(n), d |-> 0]
    ELSE LET g == GCD(AbsInt(n), AbsInt(d))
             s == IF d < 0 THEN -1 ELSE 1
         IN  [n |-> (s * n) \div g, d |-> (s * d) \div g]

I(i) == [n |-> i, d |-> 1]

Zero == I(0)

One == I(1)

NaN == [n |-> 0, d |-> 0]

IsNaN(a) == a.n = 0 /\ a.d = 0

IsFinite(a) == a.d # 0

\* a + b
Add(a, b) ==
    IF a.d = 1 /\ b.d = 1 THEN [n |-> a.n + b.n, d |-> 1]
    ELSE IF a.d = 0 /\ b.d = 0 THEN (IF a = b THEN a ELSE NaN)
    ELSE Num(a.n * b.d + b.n * a.d, a.d * b.d)

\* -a
Neg(a) == [n |-> 0 - a.n, d |-> a.d]

\* a - b
Sub(a, b) == Add(a, Neg(b))

\* a * b
Mul(a, b) ==
    IF a.d = 1 /\ b.d = 1 THEN [n |-> a.n * b.n, d |-> 1]
    ELSE Num(a.n * b.n, a.d * b.d)

\* a / b
Div(a, b) ==
    LET s == IF b.n < 0 THEN -1 ELSE 1
    IN  Num(s * a.n * b.d, a.d * s * b.n)

\* a === b
StrictEq(a, b) == a = b /\ ~IsNaN(a)

\* Math.abs(a)
MathAbs(a) == [n |-> AbsInt(a.n), d |-> a.d]

IsSquare(i) == i >= 0 /\ \E r \in 0..i : r * r = i

IntSqrt(i) == CHOOSE r \in 0..i : r * r = i

\* Math.sqrt(a), on the values whose root is a number of the model
MathSqrt(a) ==
    IF a.d = 0 THEN (IF a.n > 0 THEN a ELSE NaN)
    ELSE IF a.n < 0 THEN NaN
    ELSE [n |-> IntSqrt(a.n), d |-> IntSqrt(a.d)]

\* typeof v === "object": every value but a number is an object
IsObject(v) == "n" \notin DOMAIN v

\* the value undefined, of an optional argument that is not passed
Undefined == [undefined |-> TRUE]

IsUndefined(v) == "undefined" \in DOMAIN v

\* Array.isArray(v)
IsArray(v) == "length" \in DOMAIN v

\* the array whose elements are those of the sequence s
Array(s) == [length |-> Len(s), items |-> s]

\* u[i], counting from 0
At(u, i) == u.items[i + 1]

(***************************************************************************)
(* Vec2 and Vec3: the vector primitives the matrix namespaces call.        *)
(***************************************************************************)
Vec2_isVector2(v) == IsObject(v) /\ "x" \in DOMAIN v /\ "y" \in DOMAIN v

Vec2_dot(a, b) == Add(Mul(a.x, b.x), Mul(a.y, b.y))

Vec3_isVector3(v) ==
    IsObject(v) /\ "x" \in DOMAIN v /\ "y" \in DOMAIN v /\ "z" \in DOMAIN v

\* Vec3.from(x, y?, z?): a missing component takes the value of x
Vec3_from(x, y, z) ==
    [x |-> x,
     y |-> IF IsUndefined(y) THEN x ELSE y,
     z |-> IF IsUndefined(z) THEN x ELSE z]

Vec3_West == [x |-> I(-1), y |-> Zero, z |-> Zero]

Vec3_dot(a, b) == Add(Add(Mul(a.x, b.x), Mul(a.y, b.y)), Mul(a.z, b.z))

Vec3_cross(a, b) ==
    [x |-> Sub(Mul(a.y, b.z), Mul(a.z, b.y)),
     y |-> Sub(Mul(a.z, b.x), Mul(a.x, b.z)),
     z |-> Sub(Mul(a.x, b.y), Mul(a.y, b.x))]

Vec3_length(v) == MathSqrt(Vec3_dot(v, v))

Vec3_normalize(v) ==
    LET s == Div(One, Vec3_length(v))
    IN  [x |-> Mul(v.x, s), y |-> Mul(v.y, s), z |-> Mul(v.z, s)]

(***************************************************************************)
(* Results of a function body: a returned value or a thrown Error.         *)
(***************************************************************************)
Return(v) == [kind |-> "return", val |-> v]

Throw(msg) == [kind |-> "throw", msg |-> msg]

InvalidInput == "Invalid input values for vector construction."

NotInvertible == "Matrix is not invertible."

(***************************************************************************)
(* namespace Mat2                                                          *)
(***************************************************************************)
Mat2_Identity == [ux |-> One, vx |-> Zero, uy |-> Zero, vy |-> One]

Mat2_isMatrix2(m) ==
    /\ IsObject(m)
    /\ "ux" \in DOMAIN m /\ "vx" \in DOMAIN m
    /\ "uy" \in DOMAIN m /\ "vy" \in DOMAIN m

Mat2_from(u, v) ==
    IF IsArray(u) /\ u.length >= 4
    THEN Return([ux |-> At(u, 0), vx |-> At(u, 1),
                 uy |-> At(u, 2), vy |-> At(u, 3)])
    ELSE IF Vec2_isVector2(u) /\ ~IsUndefined(v)
    THEN Return([ux |-> u.x, vx |-> v.x,
                 uy |-> u.y, vy |-> v.y])
    ELSE Throw(InvalidInput)

Mat2_c1(m) == [x |-> m.ux, y |-> m.uy]

Mat2_c2(m) == [x |-> m.vx, y |-> m.vy]

Mat2_r1(m) == [x |-> m.ux, y |-> m.vx]

Mat2_r2(m) == [x |-> m.uy, y |-> m.vy]

\* Mat2.mul of a vector taking the columns of m for its rows
Mat2_mul_columns(m, t) ==
    IF Mat2_isMatrix2(t)
    THEN [ux |-> Vec2_dot(Mat2_r1(m), Mat2_c1(t)),
          vx |-> Vec2_dot(Mat2_r1(m), Mat2_c2(t)),
          uy |-> Vec2_dot(Mat2_r2(m), Mat2_c1(t)),
          vy |-> Vec2_dot(Mat2_r2(m), Mat2_c2(t))]
    ELSE IF Vec2_isVector2(t)
    THEN [x |-> Vec2_dot(Mat2_c1(m), t),
          y |-> Vec2_dot(Mat2_c2(m), t)]
    ELSE [ux |-> Mul(m.ux, t), vx |-> Mul(m.vx, t),
          uy |-> Mul(m.uy, t), vy |-> Mul(m.vy, t)]

Mat2_mul(m, t) ==
    IF Mat2_isMatrix2(t)
    THEN [ux |-> Vec2_dot(Mat2_r1(m), Mat2_c1(t)),
          vx |-> Vec2_dot(Mat2_r1(m), Mat2_c2(t)),
          uy |-> Vec2_dot(Mat2_r2(m), Mat2_c1(t)),
          vy |-> Vec2_dot(Mat2_r2(m), Mat2_c2(t))]
    ELSE IF Vec2_isVector2(t)
    THEN [x |-> Vec2_dot(Mat2_r1(m), t),
          y |-> Vec2_dot(Mat2_r2(m), t)]
    ELSE [ux |-> Mul(m.ux, t), vx |-> Mul(m.vx, t),
          uy |-> Mul(m.uy, t), vy |-> Mul(m.vy, t)]

Mat2_trace(m) == Add(m.ux, m.vy)

Mat2_determinant(m) == Sub(Mul(m.ux, m.vy), Mul(m.vx, m.uy))

Mat2_transpose(m) ==
    [ux |-> m.ux, vx |-> m.uy,
     uy |-> m.vx, vy |-> m.vy]

Mat2_cofactor(m) ==
    [ux |-> m.vy,      vx |-> Neg(m.uy),
     uy |-> Neg(m.vx), vy |-> m.ux]

Mat2_adjugate(m) ==
    [ux |-> m.vy,      vx |-> Neg(m.vx),
     uy |-> Neg(m.uy), vy |-> m.ux]

Mat2_inverse(m) ==
    LET det == Mat2_determinant(m)
    IN  IF StrictEq(det, Zero) THEN Throw(NotInvertible)
        ELSE Return(Mat2_mul(Mat2_adjugate(m), Div(One, det)))

(***************************************************************************)
(* namespace Mat3                                                          *)
(***************************************************************************)
Mat3_Identity ==
    [ux |-> One,  vx |-> Zero, wx |-> Zero,
     uy |-> Zero, vy |-> One,  wy |-> Zero,
     uz |-> Zero, vz |-> Zero, wz |-> One]

Mat3_isMatrix3(m) ==
    /\ IsObject(m)
    /\ "ux" \in DOMAIN m /\ "vx" \in DOMAIN m /\ "wx" \in DOMAIN m
    /\ "uy" \in DOMAIN m /\ "vy" \in DOMAIN m /\ "wy" \in DOMAIN m
    /\ "uz" \in DOMAIN m /\ "vz" \in DOMAIN m /\ "wz" \in DOMAIN m

\* Mat3.from refusing an array of exactly 9 elements
Mat3_from_strict(u, v, w) ==
    IF IsArray(u) /\ u.length > 9
    THEN Return([ux |-> At(u, 0), vx |-> At(u, 1), wx |-> At(u, 2),
                 uy |-> At(u, 3), vy |-> At(u, 4), wy |-> At(u, 5),
                 uz |-> At(u, 6), vz |-> At(u, 7), wz |-> At(u, 8)])
    ELSE IF Vec3_isVector3(u) /\ ~IsUndefined(v) /\ ~IsUndefined(w)
    THEN Return([ux |-> u.x, vx |-> v.x, wx |-> w.x,
                 uy |-> u.y, vy |-> v.y, wy |-> w.y,
                 uz |-> u.z, vz |-> v.z, wz |-> w.z])
    ELSE Throw(InvalidInput)

Mat3_from(u, v, w) ==
    IF IsArray(u) /\ u.length >= 9
    THEN Return([ux |-> At(u, 0), vx |-> At(u, 1), wx |-> At(u, 2),
                 uy |-> At(u, 3), vy |-> At(u, 4), wy |-> At(u, 5),
                 uz |-> At(u, 6), vz |-> At(u, 7), wz |-> At(u, 8)])
    ELSE IF Vec3_isVector3(u) /\ ~IsUndefined(v) /\ ~IsUndefined(w)
    THEN Return([ux |-> u.x, vx |-> v.x, wx |-> w.x,
                 uy |-> u.y, vy |-> v.y, wy |-> w.y,
                 uz |-> u.z, vz |-> v.z, wz |-> w.z])
    ELSE Throw(InvalidInput)

Mat3_c1(m) == [x |-> m.ux, y |-> m.uy, z |-> m.uz]

Mat3_c2(m) == [x |-> m.vx, y |-> m.vy, z |-> m.vz]

Mat3_c3(m) == [x |-> m.wx, y |-> m.wy, z |-> m.wz]

Mat3_r1(m) == [x |-> m.ux, y |-> m.vx, z |-> m.wx]

Mat3_r2(m) == [x |-> m.uy, y |-> m.vy, z |-> m.wy]

Mat3_r3(m) == [x |-> m.uz, y |-> m.vz, z |-> m.wz]

\* Mat3.mul taking the second column of t for the coefficient wz
Mat3_mul_wz(m, t) ==
    IF Mat3_isMatrix3(t)
    THEN [ux |-> Vec3_dot(Mat3_r1(m), Mat3_c1(t)),
          vx |-> Vec3_dot(Mat3_r1(m), Mat3_c2(t)),
          wx |-> Vec3_dot(Mat3_r1(m), Mat3_c3(t)),
          uy |-> Vec3_dot(Mat3_r2(m), Mat3_c1(t)),
          vy |-> Vec3_dot(Mat3_r2(m), Mat3_c2(t)),
          wy |-> Vec3_dot(Mat3_r2(m), Mat3_c3(t)),
          uz |-> Vec3_dot(Mat3_r3(m), Mat3_c1(t)),
          vz |-> Vec3_dot(Mat3_r3(m), Mat3_c2(t)),
          wz |-> Vec3_dot(Mat3_r3(m), Mat3_c2(t))]
    ELSE IF Vec3_isVector3(t)
    THEN [x |-> Vec3_dot(Mat3_r1(m), t),
          y |-> Vec3_dot(Mat3_r2(m), t),
          z |-> Vec3_dot(Mat3_r3(m), t)]
    ELSE [ux |-> Mul(m.ux, t), vx |-> Mul(m.vx, t), wx |-> Mul(m.wx, t),
          uy |-> Mul(m.uy, t), vy |-> Mul(m.vy, t), wy |-> Mul(m.wy, t),
          uz |-> Mul(m.uz, t), vz |-> Mul(m.vz, t), wz |-> Mul(m.wz, t)]

Mat3_mul(m, t) ==
    IF Mat3_isMatrix3(t)
    THEN [ux |-> Vec3_dot(Mat3_r1(m), Mat3_c1(t)),
          vx |-> Vec3_dot(Mat3_r1(m), Mat3_c2(t)),
          wx |-> Vec3_dot(Mat3_r1(m), Mat3_c3(t)),
          uy |-> Vec3_dot(Mat3_r2(m), Mat3_c1(t)),
          vy |-> Vec3_dot(Mat3_r2(m), Mat3_c2(t)),
          wy |-> Vec3_dot(Mat3_r2(m), Mat3_c3(t)),
          uz |-> Vec3_dot(Mat3_r3(m), Mat3_c1(t)),
          vz |-> Vec3_dot(Mat3_r3(m), Mat3_c2(t)),
          wz |-> Vec3_dot(Mat3_r3(m), Mat3_c3(t))]
    ELSE IF Vec3_isVector3(t)
    THEN [x |-> Vec3_dot(Mat3_r1(m), t),
          y |-> Vec3_dot(Mat3_r2(m), t),
          z |-> Vec3_dot(Mat3_r3(m), t)]
    ELSE [ux |-> Mul(m.ux, t), vx |-> Mul(m.vx, t), wx |-> Mul(m.wx, t),
          uy |-> Mul(m.uy, t), vy |-> Mul(m.vy, t), wy |-> Mul(m.wy, t),
          uz |-> Mul(m.uz, t), vz |-> Mul(m.vz, t), wz |-> Mul(m.wz, t)]

Mat3_trace(m) == Add(Add(m.ux, m.vy), m.wz)

\* a * b * c, evaluated left to right
Mul3(a, b, c) == Mul(Mul(a, b), c)

\* Mat3.determinant with its last product added instead of subtracted
Mat3_determinant_sign_slip(m) ==
    Add(Sub(Sub(Add(Add(Mul3(m.ux, m.vy, m.wz),
                        Mul3(m.uy, m.vz, m.wx)),
                    Mul3(m.uz, m.vx, m.wy)),
                Mul3(m.wx, m.vy, m.uz)),
            Mul3(m.wy, m.vz, m.ux)),
        Mul3(m.wz, m.vx, m.uy))

Mat3_determinant(m) ==
    Sub(Sub(Sub(Add(Add(Mul3(m.ux, m.vy, m.wz),
                        Mul3(m.uy, m.vz, m.wx)),
                    Mul3(m.uz, m.vx, m.wy)),
                Mul3(m.wx, m.vy, m.uz)),
            Mul3(m.wy, m.vz, m.ux)),
        Mul3(m.wz, m.vx, m.uy))

\* Mat3.transpose leaving the pair wy, vz in place
Mat3_transpose_partial(m) ==
    [ux |-> m.ux, vx |-> m.uy, wx |-> m.uz,
     uy |-> m.vx, vy |-> m.vy, wy |-> m.wy,
     uz |-> m.wx, vz |-> m.vz, wz |-> m.wz]

Mat3_transpose(m) ==
    [ux |-> m.ux, vx |-> m.uy, wx |-> m.uz,
     uy |-> m.vx, vy |-> m.vy, wy |-> m.vz,
     uz |-> m.wx, vz |-> m.wy, wz |-> m.wz]

\* Mat3.cofactor with the sign of the coefficient at row 1, column 2 lost
Mat3_cofactor_unsigned(m) ==
    [ux |-> Sub(Mul(m.vy, m.wz), Mul(m.wy, m.vz)),
     vx |-> Sub(Mul(m.uy, m.wz), Mul(m.wy, m.uz)),
     wx |-> Sub(Mul(m.uy, m.vz), Mul(m.vy, m.uz)),
     uy |-> Sub(Mul(m.wx, m.vz), Mul(m.vx, m.wz)),
     vy |-> Sub(Mul(m.ux, m.wz), Mul(m.wx, m.uz)),
     wy |-> Sub(Mul(m.vx, m.uz), Mul(m.ux, m.vz)),
     uz |-> Sub(Mul(m.vx, m.wy), Mul(m.wx, m.vy)),
     vz |-> Sub(Mul(m.wx, m.uy), Mul(m.ux, m.wy)),
     wz |-> Sub(Mul(m.ux, m.vy), Mul(m.vx, m.uy))]

Mat3_cofactor(m) ==
    [ux |-> Sub(Mul(m.vy, m.wz), Mul(m.wy, m.vz)),
     vx |-> Sub(Mul(m.wy, m.uz), Mul(m.uy, m.wz)),
     wx |-> Sub(Mul(m.uy, m.vz), Mul(m.vy, m.uz)),
     uy |-> Sub(Mul(m.wx, m.vz), Mul(m.vx, m.wz)),
     vy |-> Sub(Mul(m.ux, m.wz), Mul(m.wx, m.uz)),
     wy |-> Sub(Mul(m.vx, m.uz), Mul(m.ux, m.vz)),
     uz |-> Sub(Mul(m.vx, m.wy), Mul(m.wx, m.vy)),
     vz |-> Sub(Mul(m.wx, m.uy), Mul(m.ux, m.wy)),
     wz |-> Sub(Mul(m.ux, m.vy), Mul(m.vx, m.uy))]

\* Mat3.adjugate without the transposition
Mat3_adjugate_untransposed(m) ==
    [ux |-> Sub(Mul(m.vy, m.wz), Mul(m.wy, m.vz)),
     vx |-> Sub(Mul(m.wy, m.uz), Mul(m.uy, m.wz)),
     wx |-> Sub(Mul(m.uy, m.vz), Mul(m.vy, m.uz)),
     uy |-> Sub(Mul(m.wx, m.vz), Mul(m.vx, m.wz)),
     vy |-> Sub(Mul(m.ux, m.wz), Mul(m.wx, m.uz)),
     wy |-> Sub(Mul(m.vx, m.uz), Mul(m.ux, m.vz)),
     uz |-> Sub(Mul(m.vx, m.wy), Mul(m.wx, m.vy)),
     vz |-> Sub(Mul(m.wx, m.uy), Mul(m.ux, m.wy)),
     wz |-> Sub(Mul(m.ux, m.vy), Mul(m.vx, m.uy))]

Mat3_adjugate(m) ==
    [ux |-> Sub(Mul(m.vy, m.wz), Mul(m.wy, m.vz)),
     vx |-> Sub(Mul(m.wx, m.vz), Mul(m.vx, m.wz)),
     wx |-> Sub(Mul(m.vx, m.wy), Mul(m.wx, m.vy)),
     uy |-> Sub(Mul(m.wy, m.uz), Mul(m.uy, m.wz)),
     vy |-> Sub(Mul(m.ux, m.wz), Mul(m.wx, m.uz)),
     wy |-> Sub(Mul(m.wx, m.uy), Mul(m.ux, m.wy)),
     uz |-> Sub(Mul(m.uy, m.vz), Mul(m.vy, m.uz)),
     vz |-> Sub(Mul(m.vx, m.uz), Mul(m.ux, m.vz)),
     wz |-> Sub(Mul(m.ux, m.vy), Mul(m.vx, m.uy))]

\* Mat3.inverse scaling by the determinant, not by its reciprocal
Mat3_inverse_by_det(m) ==
    LET det == Mat3_determinant(m)
    IN  IF StrictEq(det, Zero) THEN Throw(NotInvertible)
        ELSE Return(Mat3_mul(Mat3_adjugate(m), det))

Mat3_inverse(m) ==
    LET det == Mat3_determinant(m)
    IN  IF StrictEq(det, Zero) THEN Throw(NotInvertible)
        ELSE Return(Mat3_mul(Mat3_adjugate(m), Div(One, det)))

\* Mat3.buildTNB testing n.y, not its absolute value
Mat3_buildTNB_up_only(n) ==
    LET u == IF StrictEq(n.y, One)
             THEN Vec3_West
             ELSE Vec3_normalize(Vec3_from(n.z, Zero, Neg(n.x)))
        w == Vec3_cross(n, u)
    IN  Mat3_from(u, n, w)

Mat3_buildTNB(n) ==
    LET u == IF StrictEq(MathAbs(n.y), One)
             THEN Vec3_West
             ELSE Vec3_normalize(Vec3_from(n.z, Zero, Neg(n.x)))
        w == Vec3_cross(n, u)
    IN  Mat3_from(u, n, w)

\* Mat3.transpose as src/src/matrix3.ts declares it
Mat3ts_transpose(m) ==
    [ux |-> m.ux, vx |-> m.uy, wx |-> m.uz,
     uy |-> m.vx, vy |-> m.vy, wy |-> m.vz,
     uz |-> m.wx, vz |-> m.wy, wz |-> m.wz]

(***************************************************************************)
(* The heap and a call of an exported function.                            *)
(***************************************************************************)
Ref(k) == [ref |-> k]

IsRef(a) == "ref" \in DOMAIN a

\* the value an argument denotes: the object it refers to, or the number
Deref(h, a) == IF IsRef(a) THEN h[a.ref] ELSE a

\* the values the arguments argv denote on heap h
Values(h, argv) == [i \in DOMAIN argv |-> Deref(h, argv[i])]

\* the end of a call: a returned object literal is a new object of the heap,
\* a returned number is passed by value, a throw allocates nothing
Complete(h, r) ==
    IF r.kind = "return" /\ IsObject(r.val)
    THEN [heap |-> Append(h, r.val), ret |-> Return(Ref(Len(h) + 1))]
    ELSE [heap |-> h, ret |-> r]

(***************************************************************************)
(* The exported functions as they act on the heap: each reads the objects  *)
(* its arguments refer to, writes to none of them, and returns a number, a *)
(* new object literal or throws.  The vectors a function builds on the way *)
(* (rows, columns) are not reachable from its result and are left out.     *)
(***************************************************************************)
Mat2_from_call(h, argv) ==
    Complete(h, Mat2_from(Deref(h, argv[1]), Deref(h, argv[2])))

Mat2_c1_call(h, argv) ==
    Complete(h, Return(Mat2_c1(Deref(h, argv[1]))))

Mat2_c2_call(h, argv) ==
    Complete(h, Return(Mat2_c2(Deref(h, argv[1]))))

Mat2_r1_call(h, argv) ==
    Complete(h, Return(Mat2_r1(Deref(h, argv[1]))))

Mat2_r2_call(h, argv) ==
    Complete(h, Return(Mat2_r2(Deref(h, argv[1]))))

Mat2_mul_call(h, argv) ==
    Complete(h, Return(Mat2_mul(Deref(h, argv[1]), Deref(h, argv[2]))))

Mat2_trace_call(h, argv) ==
    Complete(h, Return(Mat2_trace(Deref(h, argv[1]))))

Mat2_determinant_call(h, argv) ==
    Complete(h, Return(Mat2_determinant(Deref(h, argv[1]))))

Mat2_transpose_call(h, argv) ==
    Complete(h, Return(Mat2_transpose(Deref(h, argv[1]))))

Mat2_cofactor_call(h, argv) ==
    Complete(h, Return(Mat2_cofactor(Deref(h, argv[1]))))

Mat2_adjugate_call(h, argv) ==
    Complete(h, Return(Mat2_adjugate(Deref(h, argv[1]))))

Mat2_inverse_call(h, argv) ==
    Complete(h, Mat2_inverse(Deref(h, argv[1])))

Mat3_from_call(h, argv) ==
    Complete(h, Mat3_from(Deref(h, argv[1]), Deref(h, argv[2]), Deref(h, argv[3])))

Mat3_c1_call(h, argv) ==
    Complete(h, Return(Mat3_c1(Deref(h, argv[1]))))

Mat3_c2_call(h, argv) ==
    Complete(h, Return(Mat3_c2(Deref(h, argv[1]))))

Mat3_c3_call(h, argv) ==
    Complete(h, Return(Mat3_c3(Deref(h, argv[1]))))

Mat3_r1_call(h, argv) ==
    Complete(h, Return(Mat3_r1(Deref(h, argv[1]))))

Mat3_r2_call(h, argv) ==
    Complete(h, Return(Mat3_r2(Deref(h, argv[1]))))

Mat3_r3_call(h, argv) ==
    Complete(h, Return(Mat3_r3(Deref(h, argv[1]))))

\* Mat3.mul scaling m in place and returning m when t is a number
Mat3_mul_call_in_place(h, argv) ==
    IF IsRef(argv[2])
    THEN Complete(h, Return(Mat3_mul(Deref(h, argv[1]), Deref(h, argv[2]))))
    ELSE [heap |-> [h EXCEPT ![argv[1].ref] = Mat3_mul(h[argv[1].ref], argv[2])],
          ret |-> Return(argv[1])]

Mat3_mul_call(h, argv) ==
    Complete(h, Return(Mat3_mul(Deref(h, argv[1]), Deref(h, argv[2]))))

Mat3_trace_call(h, argv) ==
    Complete(h, Return(Mat3_trace(Deref(h, argv[1]))))

Mat3_determinant_call(h, argv) ==
    Complete(h, Return(Mat3_determinant(Deref(h, argv[1]))))

Mat3_transpose_call(h, argv) ==
    Complete(h, Return(Mat3_transpose(Deref(h, argv[1]))))

Mat3ts_transpose_call(h, argv) ==
    Complete(h, Return(Mat3ts_transpose(Deref(h, argv[1]))))

Mat3_cofactor_call(h, argv) ==
    Complete(h, Return(Mat3_cofactor(Deref(h, argv[1]))))

Mat3_adjugate_call(h, argv) ==
    Complete(h, Return(Mat3_adjugate(Deref(h, argv[1]))))

Mat3_inverse_call(h, argv) ==
    Complete(h, Mat3_inverse(Deref(h, argv[1])))

Mat3_buildTNB_call(h, argv) ==
    Complete(h, Mat3_buildTNB(Deref(h, argv[1])))

\* the objects that exist before any call: Mat2.Identity and Mat3.Identity
Statics == <<Mat2_Identity, Mat3_Identity>>

Mat2_IdentityRef == Ref(Len(Statics) - 1)

Mat3_IdentityRef == Ref(Len(Statics))

(***************************************************************************)
(* State: the heap, the heap as it was when the last call began, the last  *)
(* call and its outcome.                                                   *)
(***************************************************************************)
VARIABLES heap, pre, call, ret

vars == <<heap, pre, call, ret>>

Init ==
    /\ heap = Statics
    /\ pre = Statics
    /\ call = [ns |-> "none", f |-> "none", argv |-> <<>>]
    /\ ret = Return(Undefined)

(***************************************************************************)
(* The caller's arguments.  An argument is a literal the caller allocates  *)
(* for the call (Lit), a shared constant (Static) or the object passed as  *)
(* an earlier argument of the same call (Same).                            *)
(***************************************************************************)
Lit(v) == [lit |-> v]

Static(r) == [static |-> r]

Same(j) == [same |-> j]

IsNewObject(s) == "lit" \in DOMAIN s /\ IsObject(s.lit) /\ ~IsUndefined(s.lit)

\* how many of the first i arguments are objects the caller allocates
NewCount(srcs, i) == Cardinality({j \in 1..i : IsNewObject(srcs[j])})

\* the objects the caller allocates, in argument order
NewObjects(srcs) ==
    [k \in 1..NewCount(srcs, Len(srcs)) |->
        srcs[CHOOSE j \in 1..Len(srcs) :
                IsNewObject(srcs[j]) /\ NewCount(srcs, j) = k].lit]

\* what is passed for the i-th argument, itself not a Same
Passed(srcs, i) ==
    IF "static" \in DOMAIN srcs[i] THEN srcs[i].static
    ELSE IF IsNewObject(srcs[i]) THEN Ref(Len(Statics) + NewCount(srcs, i))
    ELSE srcs[i].lit

\* what is passed for each argument
ArgsOf(srcs) ==
    [i \in 1..Len(srcs) |->
        IF "same" \in DOMAIN srcs[i] THEN Passed(srcs, srcs[i].same)
        ELSE Passed(srcs, i)]

NoCall == [ns |-> "none", f |-> "none", argv |-> <<>>]

\* no call is in progress and no result is held
Idle == call = NoCall

\* the heap once the caller has allocated the arguments srcs
Prepare(srcs) == heap \o NewObjects(srcs)

\* the record of a call of ns.f
Called(ns, f, argv) == [ns |-> ns, f |-> f, argv |-> argv]

(***************************************************************************)
(* The inputs the calls are made with.                                     *)
(***************************************************************************)
Coef == (0 - MaxCoef)..MaxCoef

\* scalars: the integer coefficients and their halves
ScalarIn == {Num(c, k) : c \in Coef, k \in {1, 2}}

Vec2In == {[x |-> I(a), y |-> I(b)] : a, b \in Coef}

Vec3In == {[x |-> I(a), y |-> I(b), z |-> I(c)] : a, b, c \in Coef}

Mat2In ==
    {[ux |-> I(a), vx |-> I(b), uy |-> I(c), vy |-> I(d)] : a, b, c, d \in Coef}

Cells3 == {"ux", "vx", "wx", "uy", "vy", "wy", "uz", "vz", "wz"}

Zero3 == [c \in Cells3 |-> Zero]

Dense3 ==
    [ux |-> I(2),  vx |-> I(-1), wx |-> I(1),
     uy |-> I(1),  vy |-> I(3),  wy |-> I(-2),
     uz |-> I(-1), vz |-> I(1),  wz |-> I(2)]

Mat3Bases == {Zero3, Mat3_Identity, Dense3}

\* the matrices that differ from b by at most k steps of one coefficient,
\* no coefficient moving further than MaxCoef from b
RECURSIVE Perturb(_, _)
Perturb(b, k) ==
    IF k = 0 THEN {b}
    ELSE LET P == Perturb(b, k - 1)
         IN  P \cup {[t[1] EXCEPT ![t[2]] = Add(t[1][t[2]], I(t[3]))] :
                        t \in {q \in P \X Cells3 \X {-1, 1} :
                                 AbsInt(q[1][q[2]].n + q[3] - b[q[2]].n) <= MaxCoef}}

Mat3In == UNION {Perturb(b, MaxWeight) : b \in Mat3Bases}

\* second operands of a 3x3 product: the bases and their neighbours
Mat3Gen == UNION {Perturb(b, 1) : b \in Mat3Bases}

Zero2 == [ux |-> Zero, vx |-> Zero, uy |-> Zero, vy |-> Zero]

Dense2 == [ux |-> I(2), vx |-> I(-1), uy |-> I(1), vy |-> I(3)]

\* second operands of a 2x2 product: three bases and their neighbours
Mat2Gen ==
    {[b EXCEPT ![c] = Add(b[c], I(k))] :
        b \in {Zero2, Mat2_Identity, Dense2},
        c \in {"ux", "vx", "uy", "vy"}, k \in Coef}

\* vector operands of a 3x3 product with any input matrix
Vec3Gen == {Mat3_c1(n) : n \in Mat3Gen} \cup {Mat3_r3(n) : n \in Mat3Gen}

\* arrays of length len: 1..len in order, and the arrays with one non-zero
ArraysOf(len) ==
    {Array([i \in 1..len |-> I(i)])}
    \cup {Array([i \in 1..len |-> IF i = k THEN I(c) ELSE Zero]) :
             k \in 1..len, c \in Coef \ {0}}

ArraysUpTo(len) == UNION {ArraysOf(l) : l \in 0..len}

TNBScales == {1, 5}

\* buildTNB inputs: the vectors (a, b, c) / s whose horizontal part has a
\* length that is a number of the model
TNBIn ==
    {[x |-> Num(t[1], t[4]), y |-> Num(t[2], t[4]), z |-> Num(t[3], t[4])] :
        t \in {q \in ((0 - MaxTNB)..MaxTNB) \X ((0 - MaxTNB)..MaxTNB)
                       \X ((0 - MaxTNB)..MaxTNB) \X TNBScales :
                 IsSquare(q[1] * q[1] + q[3] * q[3])}}

\* a 2x2 matrix argument: a literal or Mat2.Identity itself
Mat2Arg == {Lit(m) : m \in Mat2In} \cup {Static(Mat2_IdentityRef)}

\* a 3x3 matrix argument: a literal or Mat3.Identity itself
Mat3Arg == {Lit(m) : m \in Mat3In} \cup {Static(Mat3_IdentityRef)}

\* the value of a matrix argument
ValueOf(s) == IF "static" \in DOMAIN s THEN Statics[s.static.ref] ELSE s.lit

\* the values the results rs return
Returned(rs) == {r.val : r \in {q \in rs : q.kind = "return"}}

\* second operands of Mat2.mul(m, t): a matrix, m itself, a matrix derived
\* from m, a vector, a scalar
Mat2MulArg(m) ==
    {Lit(n) : n \in Mat2Gen} \cup {Static(Mat2_IdentityRef), Same(1)}
        \cup {Lit(Mat2_transpose(m)), Lit(Mat2_adjugate(m))}
        \cup {Lit(n) : n \in Returned({Mat2_inverse(m)})}
        \cup {Lit(v) : v \in Vec2In}
        \cup {Lit(c) : c \in ScalarIn}

\* second operands of Mat3.mul(m, t) for any input matrix m
Mat3MulArg(m) ==
    {Static(Mat3_IdentityRef), Same(1)}
        \cup {Lit(Mat3_transpose(m)), Lit(Mat3_adjugate(m))}
        \cup {Lit(n) : n \in Returned({Mat3_inverse(m)})}
        \cup {Lit(v) : v \in Vec3Gen}
        \cup {Lit(c) : c \in ScalarIn}

\* second operands of Mat3.mul(m, t) for m a base or a neighbour of one
Mat3GenMulArg == {Lit(n) : n \in Mat3Gen} \cup {Lit(v) : v \in Vec3In}

(***************************************************************************)
(* One action per exported function: from the idle state the caller makes  *)
(* one call.                                                               *)
(***************************************************************************)
Mat2_from_op ==
    /\ Idle
    /\ \/ \E u \in ArraysUpTo(4 + MaxExtra) :
             LET h0   == Prepare(<<Lit(u), Lit(Undefined)>>)
                 argv == ArgsOf(<<Lit(u), Lit(Undefined)>>)
                 r    == Mat2_from_call(h0, argv)
             IN  /\ pre' = h0
                 /\ heap' = r.heap
                 /\ call' = Called("Mat2", "from", argv)
                 /\ ret' = r.ret
       \/ \E u, v \in Vec2In :
             LET h0   == Prepare(<<Lit(u), Lit(v)>>)
                 argv == ArgsOf(<<Lit(u), Lit(v)>>)
                 r    == Mat2_from_call(h0, argv)
             IN  /\ pre' = h0
                 /\ heap' = r.heap
                 /\ call' = Called("Mat2", "from", argv)
                 /\ ret' = r.ret

Mat2_c1_op ==
    /\ Idle
    /\ \E m \in Mat2Arg :
        LET h0   == Prepare(<<m>>)
            argv == ArgsOf(<<m>>)
            r    == Mat2_c1_call(h0, argv)
        IN  /\ pre' = h0
            /\ heap' = r.heap
            /\ call' = Called("Mat2", "c1", argv)
            /\ ret' = r.ret

Mat2_c2_op ==
    /\ Idle
    /\ \E m \in Mat2Arg :
        LET h0   == Prepare(<<m>>)
            argv == ArgsOf(<<m>>)
            r    == Mat2_c2_call(h0, argv)
        IN  /\ pre' = h0
            /\ heap' = r.heap
            /\ call' = Called("Mat2", "c2", argv)
            /\ ret' = r.ret

Mat2_r1_op ==
    /\ Idle
    /\ \E m \in Mat2Arg :
        LET h0   == Prepare(<<m>>)
            argv == ArgsOf(<<m>>)
            r    == Mat2_r1_call(h0, argv)
        IN  /\ pre' = h0
            /\ heap' = r.heap
            /\ call' = Called("Mat2", "r1", argv)
            /\ ret' = r.ret

Mat2_r2_op ==
    /\ Idle
    /\ \E m \in Mat2Arg :
        LET h0   == Prepare(<<m>>)
            argv == ArgsOf(<<m>>)
            r    == Mat2_r2_call(h0, argv)
        IN  /\ pre' = h0
            /\ heap' = r.heap
            /\ call' = Called("Mat2", "r2", argv)
            /\ ret' = r.ret

Mat2_mul_op ==
    /\ Idle
    /\ \E m \in Mat2Arg : \E t \in Mat2MulArg(ValueOf(m)) :
        LET h0   == Prepare(<<m, t>>)
            argv == ArgsOf(<<m, t>>)
            r    == Mat2_mul_call(h0, argv)
        IN  /\ pre' = h0
            /\ heap' = r.heap
            /\ call' = Called("Mat2", "mul", argv)
            /\ ret' = r.ret

Mat2_trace_op ==
    /\ Idle
    /\ \E m \in Mat2Arg :
        LET h0   == Prepare(<<m>>)
            argv == ArgsOf(<<m>>)
            r    == Mat2_trace_call(h0, argv)
        IN  /\ pre' = h0
            /\ heap' = r.heap
            /\ call' = Called("Mat2", "trace", argv)
            /\ ret' = r.ret

Mat2_determinant_op ==
    /\ Idle
    /\ \E m \in Mat2Arg :
        LET h0   == Prepare(<<m>>)
            argv == ArgsOf(<<m>>)
            r    == Mat2_determinant_call(h0, argv)
        IN  /\ pre' = h0
            /\ heap' = r.heap
            /\ call' = Called("Mat2", "determinant", argv)
            /\ ret' = r.ret

Mat2_transpose_op ==
    /\ Idle
    /\ \E m \in Mat2Arg :
        LET h0   == Prepare(<<m>>)
            argv == ArgsOf(<<m>>)
            r    == Mat2_transpose_call(h0, argv)
        IN  /\ pre' = h0
            /\ heap' = r.heap
            /\ call' = Called("Mat2", "transpose", argv)
            /\ ret' = r.ret

Mat2_cofactor_op ==
    /\ Idle
    /\ \E m \in Mat2Arg :
        LET h0   == Prepare(<<m>>)
            argv == ArgsOf(<<m>>)
            r    == Mat2_cofactor_call(h0, argv)
        IN  /\ pre' = h0
            /\ heap' = r.heap
            /\ call' = Called("Mat2", "cofactor", argv)
            /\ ret' = r.ret

Mat2_adjugate_op ==
    /\ Idle
    /\ \E m \in Mat2Arg :
        LET h0   == Prepare(<<m>>)
            argv == ArgsOf(<<m>>)
            r    == Mat2_adjugate_call(h0, argv)
        IN  /\ pre' = h0
            /\ heap' = r.heap
            /\ call' = Called("Mat2", "adjugate", argv)
            /\ ret' = r.ret

Mat2_inverse_op ==
    /\ Idle
    /\ \E m \in Mat2Arg :
        LET h0   == Prepare(<<m>>)
            argv == ArgsOf(<<m>>)
            r    == Mat2_inverse_call(h0, argv)
        IN  /\ pre' = h0
            /\ heap' = r.heap
            /\ call' = Called("Mat2", "inverse", argv)
            /\ ret' = r.ret

Mat3_from_op ==
    /\ Idle
    /\ \/ \E u \in ArraysUpTo(9 + MaxExtra) :
             LET h0   == Prepare(<<Lit(u), Lit(Undefined), Lit(Undefined)>>)
                 argv == ArgsOf(<<Lit(u), Lit(Undefined), Lit(Undefined)>>)
                 r    == Mat3_from_call(h0, argv)
             IN  /\ pre' = h0
                 /\ heap' = r.heap
                 /\ call' = Called("Mat3", "from", argv)
                 /\ ret' = r.ret
       \/ \E m \in Mat3In :
             LET h0   == Prepare(<<Lit(Mat3_c1(m)), Lit(Mat3_c2(m)), Lit(Mat3_c3(m))>>)
                 argv == ArgsOf(<<Lit(Mat3_c1(m)), Lit(Mat3_c2(m)), Lit(Mat3_c3(m))>>)
                 r    == Mat3_from_call(h0, argv)
             IN  /\ pre' = h0
                 /\ heap' = r.heap
                 /\ call' = Called("Mat3", "from", argv)
                 /\ ret' = r.ret

Mat3_c1_op ==
    /\ Idle
    /\ \E m \in Mat3Arg :
        LET h0   == Prepare(<<m>>)
            argv == ArgsOf(<<m>>)
            r    == Mat3_c1_call(h0, argv)
        IN  /\ pre' = h0
            /\ heap' = r.heap
            /\ call' = Called("Mat3", "c1", argv)
            /\ ret' = r.ret

Mat3_c2_op ==
    /\ Idle
    /\ \E m \in Mat3Arg :
        LET h0   == Prepare(<<m>>)
            argv == ArgsOf(<<m>>)
            r    == Mat3_c2_call(h0, argv)
        IN  /\ pre' = h0
            /\ heap' = r.heap
            /\ call' = Called("Mat3", "c2", argv)
            /\ ret' = r.ret

Mat3_c3_op ==
    /\ Idle
    /\ \E m \in Mat3Arg :
        LET h0   == Prepare(<<m>>)
            argv == ArgsOf(<<m>>)
            r    == Mat3_c3_call(h0, argv)
        IN  /\ pre' = h0
            /\ heap' = r.heap
            /\ call' = Called("Mat3", "c3", argv)
            /\ ret' = r.ret

Mat3_r1_op ==
    /\ Idle
    /\ \E m \in Mat3Arg :
        LET h0   == Prepare(<<m>>)
            argv == ArgsOf(<<m>>)
            r    == Mat3_r1_call(h0, argv)
        IN  /\ pre' = h0
            /\ heap' = r.heap
            /\ call' = Called("Mat3", "r1", argv)
            /\ ret' = r.ret

Mat3_r2_op ==
    /\ Idle
    /\ \E m \in Mat3Arg :
        LET h0   == Prepare(<<m>>)
            argv == ArgsOf(<<m>>)
            r    == Mat3_r2_call(h0, argv)
        IN  /\ pre' = h0
            /\ heap' = r.heap
            /\ call' = Called("Mat3", "r2", argv)
            /\ ret' = r.ret

Mat3_r3_op ==
    /\ Idle
    /\ \E m \in Mat3Arg :
        LET h0   == Prepare(<<m>>)
            argv == ArgsOf(<<m>>)
            r    == Mat3_r3_call(h0, argv)
        IN  /\ pre' = h0
            /\ heap' = r.heap
            /\ call' = Called("Mat3", "r3", argv)
            /\ ret' = r.ret

Mat3_mul_op ==
    /\ Idle
    /\ \/ \E m \in Mat3Arg : \E t \in Mat3MulArg(ValueOf(m)) :
             LET h0   == Prepare(<<m, t>>)
                 argv == ArgsOf(<<m, t>>)
                 r    == Mat3_mul_call(h0, argv)
             IN  /\ pre' = h0
                 /\ heap' = r.heap
                 /\ call' = Called("Mat3", "mul", argv)
                 /\ ret' = r.ret
       \/ \E m \in Mat3Gen : \E t \in Mat3GenMulArg :
             LET h0   == Prepare(<<Lit(m), t>>)
                 argv == ArgsOf(<<Lit(m), t>>)
                 r    == Mat3_mul_call(h0, argv)
             IN  /\ pre' = h0
                 /\ heap' = r.heap
                 /\ call' = Called("Mat3", "mul", argv)
                 /\ ret' = r.ret

Mat3_trace_op ==
    /\ Idle
    /\ \E m \in Mat3Arg :
        LET h0   == Prepare(<<m>>)
            argv == ArgsOf(<<m>>)
            r    == Mat3_trace_call(h0, argv)
        IN  /\ pre' = h0
            /\ heap' = r.heap
            /\ call' = Called("Mat3", "trace", argv)
            /\ ret' = r.ret

Mat3_determinant_op ==
    /\ Idle
    /\ \E m \in Mat3Arg :
        LET h0   == Prepare(<<m>>)
            argv == ArgsOf(<<m>>)
            r    == Mat3_determinant_call(h0, argv)
        IN  /\ pre' = h0
            /\ heap' = r.heap
            /\ call' = Called("Mat3", "determinant", argv)
            /\ ret' = r.ret

Mat3_transpose_op ==
    /\ Idle
    /\ \E m \in Mat3Arg :
        LET h0   == Prepare(<<m>>)
            argv == ArgsOf(<<m>>)
            r    == Mat3_transpose_call(h0, argv)
        IN  /\ pre' = h0
            /\ heap' = r.heap
            /\ call' = Called("Mat3", "transpose", argv)
            /\ ret' = r.ret

Mat3ts_transpose_op ==
    /\ Idle
    /\ \E m \in Mat3Arg :
        LET h0   == Prepare(<<m>>)
            argv == ArgsOf(<<m>>)
            r    == Mat3ts_transpose_call(h0, argv)
        IN  /\ pre' = h0
            /\ heap' = r.heap
            /\ call' = Called("matrix3.ts", "transpose", argv)
            /\ ret' = r.ret

Mat3_cofactor_op ==
    /\ Idle
    /\ \E m \in Mat3Arg :
        LET h0   == Prepare(<<m>>)
            argv == ArgsOf(<<m>>)
            r    == Mat3_cofactor_call(h0, argv)
        IN  /\ pre' = h0
            /\ heap' = r.heap
            /\ call' = Called("Mat3", "cofactor", argv)
            /\ ret' = r.ret

Mat3_adjugate_op ==
    /\ Idle
    /\ \E m \in Mat3Arg :
        LET h0   == Prepare(<<m>>)
            argv == ArgsOf(<<m>>)
            r    == Mat3_adjugate_call(h0, argv)
        IN  /\ pre' = h0
            /\ heap' = r.heap
            /\ call' = Called("Mat3", "adjugate", argv)
            /\ ret' = r.ret

Mat3_inverse_op ==
    /\ Idle
    /\ \E m \in Mat3Arg :
        LET h0   == Prepare(<<m>>)
            argv == ArgsOf(<<m>>)
            r    == Mat3_inverse_call(h0, argv)
        IN  /\ pre' = h0
            /\ heap' = r.heap
            /\ call' = Called("Mat3", "inverse", argv)
            /\ ret' = r.ret

Mat3_buildTNB_op ==
    /\ Idle
    /\ \E n \in TNBIn :
        LET h0   == Prepare(<<Lit(n)>>)
            argv == ArgsOf(<<Lit(n)>>)
            r    == Mat3_buildTNB_call(h0, argv)
        IN  /\ pre' = h0
            /\ heap' = r.heap
            /\ call' = Called("Mat3", "buildTNB", argv)
            /\ ret' = r.ret

\* the arguments and the result of the last call go out of scope; the
\* shared constants stay as the call left them
Discard ==
    /\ ~Idle
    /\ heap' = SubSeq(heap, 1, Len(Statics))
    /\ pre' = heap'
    /\ call' = NoCall
    /\ ret' = Return(Undefined)

Next ==
    \/ Discard
    \/ Mat2_from_op
    \/ Mat2_c1_op
    \/ Mat2_c2_op
    \/ Mat2_r1_op
    \/ Mat2_r2_op
    \/ Mat2_mul_op
    \/ Mat2_trace_op
    \/ Mat2_determinant_op
    \/ Mat2_transpose_op
    \/ Mat2_cofactor_op
    \/ Mat2_adjugate_op
    \/ Mat2_inverse_op
    \/ Mat3_from_op
    \/ Mat3_c1_op
    \/ Mat3_c2_op
    \/ Mat3_c3_op
    \/ Mat3_r1_op
    \/ Mat3_r2_op
    \/ Mat3_r3_op
    \/ Mat3_mul_op
    \/ Mat3_trace_op
    \/ Mat3_determinant_op
    \/ Mat3_transpose_op
    \/ Mat3ts_transpose_op
    \/ Mat3_cofactor_op
    \/ Mat3_adjugate_op
    \/ Mat3_inverse_op
    \/ Mat3_buildTNB_op

Spec == Init /\ [][Next]_vars

(***************************************************************************)
(* Properties.  They read the last call: Arg(i) is the value of its i-th   *)
(* argument when the call began, Result the value it returned.             *)
(***************************************************************************)
Calls(ns, f) == call.ns = ns /\ call.f = f

Arg(i) == Deref(pre, call.argv[i])

Returns == ret.kind = "return"

Result == Deref(heap, ret.val)

\* the coefficient names by row and column (section 3 of the specification):
\* the letter is the column, the subscript the row
Name2 == <<<<"ux", "vx">>, <<"uy", "vy">>>>

Name3 == <<<<"ux", "vx", "wx">>, <<"uy", "vy", "wy">>, <<"uz", "vz", "wz">>>>

Cells2 == {"ux", "vx", "uy", "vy"}

\* the coefficient of m at row i, column j
E2(m, i, j) == m[Name2[i][j]]

E3(m, i, j) == m[Name3[i][j]]

Comp2 == <<"x", "y">>

Comp3 == <<"x", "y", "z">>

\* C1: inverse(m) throws "Matrix is not invertible." exactly when
\* determinant(m) is 0, and otherwise returns the matrix whose every
\* coefficient is that of adjugate(m) times 1 / determinant(m).
C1_InverseThrowsIffSingular ==
    /\ Calls("Mat2", "inverse") =>
          LET m == Arg(1)
              det == Mat2_determinant(m)
          IN  IF det = Zero THEN ret = Throw(NotInvertible)
              ELSE /\ Returns
                   /\ \A c \in Cells2 :
                         Result[c] = Mul(Mat2_adjugate(m)[c], Div(One, det))
    /\ Calls("Mat3", "inverse") =>
          LET m == Arg(1)
              det == Mat3_determinant(m)
          IN  IF det = Zero THEN ret = Throw(NotInvertible)
              ELSE /\ Returns
                   /\ \A c \in Cells3 :
                         Result[c] = Mul(Mat3_adjugate(m)[c], Div(One, det))

\* Mat3.inverse has refused a non-zero matrix whose first two rows are equal
C1_Witness ==
    /\ Calls("Mat3", "inverse")
    /\ Mat3_r1(Arg(1)) = Mat3_r2(Arg(1))
    /\ Mat3_r1(Arg(1)).x # Zero
    /\ ret = Throw(NotInvertible)

\* the coefficient names in row-major order
RowMajor2 == <<"ux", "vx", "uy", "vy">>

RowMajor3 == <<"ux", "vx", "wx", "uy", "vy", "wy", "uz", "vz", "wz">>

\* C2: from(array) throws "Invalid input values for vector construction."
\* for every array shorter than 4 (Mat2) or 9 (Mat3) elements, the empty
\* one included, and otherwise returns the matrix whose coefficients are
\* the first 4 (9) elements in row-major order, whatever follows them.
C2_FromArray ==
    /\ (Calls("Mat2", "from") /\ IsArray(Arg(1))) =>
          IF Arg(1).length < 4 THEN ret = Throw(InvalidInput)
          ELSE /\ Returns
               /\ \A i \in 1..4 : Result[RowMajor2[i]] = Arg(1).items[i]
    /\ (Calls("Mat3", "from") /\ IsArray(Arg(1))) =>
          IF Arg(1).length < 9 THEN ret = Throw(InvalidInput)
          ELSE /\ Returns
               /\ \A i \in 1..9 : Result[RowMajor3[i]] = Arg(1).items[i]

\* Mat3.from has built a matrix from an array longer than 9 whose only
\* non-zero element is the sixth
C2_Witness ==
    /\ Calls("Mat3", "from")
    /\ IsArray(Arg(1))
    /\ Arg(1).length > 9
    /\ Returns
    /\ Result.wy # Zero
    /\ \A c \in Cells3 \ {"wy"} : Result[c] = Zero

\* C3: for every m with determinant(m) # 0, mul(m, inverse(m)) is the
\* identity matrix: both the product formed from the matrix inverse(m)
\* returned, and the matrix mul returns when it is given m and inverse(m).
C3_MulInverseIsIdentity ==
    /\ (Calls("Mat2", "inverse") /\ Returns) =>
          Mat2_mul(Arg(1), Result) = Mat2_Identity
    /\ (Calls("Mat3", "inverse") /\ Returns) =>
          Mat3_mul(Arg(1), Result) = Mat3_Identity
    /\ (/\ Calls("Mat2", "mul")
        /\ Mat2_determinant(Arg(1)) # Zero
        /\ Arg(2) \in Returned({Mat2_inverse(Arg(1))})) =>
          Result = Mat2_Identity
    /\ (/\ Calls("Mat3", "mul")
        /\ Mat3_determinant(Arg(1)) # Zero
        /\ Arg(2) \in Returned({Mat3_inverse(Arg(1))})) =>
          Result = Mat3_Identity

\* Mat3.mul has multiplied a matrix that is not its own inverse, with a
\* determinant other than 1 and -1, by its inverse
C3_Witness ==
    /\ Calls("Mat3", "mul")
    /\ Mat3_determinant(Arg(1)) \notin {Zero, One, I(-1)}
    /\ Arg(2) \in Returned({Mat3_inverse(Arg(1))})
    /\ Arg(2) # Arg(1)
    /\ Arg(1).vx # Zero
    /\ Result = Mat3_Identity

\* the rows (columns) that are left when row (column) i is deleted
Others(i) == {1, 2, 3} \ {i}

Lo(i) == CHOOSE k \in Others(i) : \A l \in Others(i) : k <= l

Hi(i) == CHOOSE k \in Others(i) : \A l \in Others(i) : k >= l

\* the determinant of the 2x2 submatrix of m without row i and column j
Minor3(m, i, j) ==
    Sub(Mul(E3(m, Lo(i), Lo(j)), E3(m, Hi(i), Hi(j))),
        Mul(E3(m, Lo(i), Hi(j)), E3(m, Hi(i), Lo(j))))

\* (-1)^(i+j) * x
Signed(i, j, x) == IF (i + j) % 2 = 0 THEN x ELSE Neg(x)

\* the single coefficient of m that is left without row i and column j
Minor2(m, i, j) == E2(m, 3 - i, 3 - j)

\* C4: cofactor(m) has at row i, column j the value (-1)^(i+j) times the
\* determinant of m without row i and column j (for 2x2: ux: vy, vx: -uy,
\* uy: -vx, vy: ux), and adjugate(m) is transpose(cofactor(m)) coefficient
\* by coefficient.
C4_AdjugateIsTransposedCofactor ==
    /\ Calls("Mat2", "cofactor") =>
          /\ \A i, j \in 1..2 :
                E2(Result, i, j) = Signed(i, j, Minor2(Arg(1), i, j))
          /\ Result = [ux |-> Arg(1).vy,      vx |-> Neg(Arg(1).uy),
                       uy |-> Neg(Arg(1).vx), vy |-> Arg(1).ux]
    /\ Calls("Mat3", "cofactor") =>
          \A i, j \in 1..3 :
             E3(Result, i, j) = Signed(i, j, Minor3(Arg(1), i, j))
    /\ Calls("Mat2", "adjugate") =>
          /\ Result = Mat2_transpose(Mat2_cofactor(Arg(1)))
          /\ \A i, j \in 1..2 :
                E2(Result, i, j) = Signed(j, i, Minor2(Arg(1), j, i))
    /\ Calls("Mat3", "adjugate") =>
          /\ Result = Mat3_transpose(Mat3_cofactor(Arg(1)))
          /\ \A i, j \in 1..3 :
                E3(Result, i, j) = Signed(j, i, Minor3(Arg(1), j, i))

\* Mat3.adjugate has returned a matrix that is not symmetric, of a matrix
\* with no zero coefficient
C4_Witness ==
    /\ Calls("Mat3", "adjugate")
    /\ \A c \in Cells3 : Arg(1)[c] # Zero
    /\ Result.vx # Result.uy
    /\ Result.wx # Result.uz
    /\ Result.wy # Result.vz

\* the tangent of the generic branch: (n.z, 0, -n.x), each component times
\* 1 / sqrt(n.z * n.z + n.x * n.x)
GenericTangent(n) ==
    LET s == Div(One, MathSqrt(Add(Mul(n.z, n.z), Mul(n.x, n.x))))
    IN  [x |-> Mul(n.z, s), y |-> Mul(Zero, s), z |-> Mul(Neg(n.x), s)]

\* C5: buildTNB(n) returns the matrix whose second column is n, whose first
\* column is the tangent u and whose third column is cross(n, u); u is the
\* vector (-1, 0, 0) when |n.y| is 1, and normalize((n.z, 0, -n.x))
\* otherwise.
C5_BuildTNBColumns ==
    Calls("Mat3", "buildTNB") =>
        LET n == Arg(1)
        IN  /\ Returns
            /\ Mat3_c2(Result) = n
            /\ Mat3_c3(Result) = Vec3_cross(n, Mat3_c1(Result))
            /\ (n.y \in {One, I(-1)}) =>
                  Mat3_c1(Result) = [x |-> I(-1), y |-> Zero, z |-> Zero]
            /\ (n.y \notin {One, I(-1)}) =>
                  Mat3_c1(Result) = GenericTangent(n)

\* buildTNB has been given the pole (0, -1, 0) and has answered with the
\* fallback tangent
C5_Witness ==
    /\ Calls("Mat3", "buildTNB")
    /\ Arg(1) = [x |-> Zero, y |-> I(-1), z |-> Zero]
    /\ Returns
    /\ Mat3_c1(Result) = Vec3_West
    /\ Mat3_c3(Result) = [x |-> Zero, y |-> Zero, z |-> I(-1)]

\* a tangent is produced: no component of the first column is NaN
TangentProduced == \A k \in 1..3 : ~IsNaN(Mat3_c1(Result)[Comp3[k]])

\* C6: whenever buildTNB(n) produces a tangent, the columns u, n, w of the
\* matrix it returns are mutually orthogonal: dot(u, n), dot(w, n) and
\* dot(w, u) are 0, for n of any length, in both branches.
C6_ColumnsOrthogonal ==
    (Calls("Mat3", "buildTNB") /\ Returns /\ TangentProduced) =>
        LET u == Mat3_c1(Result)
            n == Mat3_c2(Result)
            w == Mat3_c3(Result)
        IN  /\ Vec3_dot(u, n) = Zero
            /\ Vec3_dot(w, n) = Zero
            /\ Vec3_dot(w, u) = Zero

\* C6, what the code does: the columns are mutually orthogonal in the
\* generic branch; in the fallback branch w is orthogonal to u and to n,
\* and dot(u, n) is -n.x.
C6_OrthogonalUnlessFallbackWithX ==
    (Calls("Mat3", "buildTNB") /\ Returns /\ TangentProduced) =>
        LET u == Mat3_c1(Result)
            n == Mat3_c2(Result)
            w == Mat3_c3(Result)
        IN  /\ Vec3_dot(w, n) = Zero
            /\ Vec3_dot(w, u) = Zero
            /\ Vec3_dot(u, n) = IF n.y \in {One, I(-1)} THEN Neg(n.x) ELSE Zero

\* C7: transpose(transpose(m)) is m, and transpose(m) has at row i, column
\* j the coefficient of m at row j, column i: the diagonal stays and each
\* off-diagonal pair is swapped.
C7_TransposeInvolution ==
    /\ Calls("Mat2", "transpose") =>
          /\ Mat2_transpose(Result) = Arg(1)
          /\ \A i, j \in 1..2 : E2(Result, i, j) = E2(Arg(1), j, i)
    /\ Calls("Mat3", "transpose") =>
          /\ Mat3_transpose(Result) = Arg(1)
          /\ \A i, j \in 1..3 : E3(Result, i, j) = E3(Arg(1), j, i)
    /\ Calls("matrix3.ts", "transpose") =>
          /\ Mat3ts_transpose(Result) = Arg(1)
          /\ \A i, j \in 1..3 : E3(Result, i, j) = E3(Arg(1), j, i)

\* Mat3.transpose has transposed a matrix whose three off-diagonal pairs
\* are each of two different values
C7_Witness ==
    /\ Calls("Mat3", "transpose")
    /\ Arg(1).vx # Arg(1).uy
    /\ Arg(1).wx # Arg(1).uz
    /\ Arg(1).wy # Arg(1).vz
    /\ Result # Arg(1)

\* third operands p of the products the associativity of a call is tried on:
\* the matrices with a single coefficient 1, which span the matrices, and two
\* matrices with no zero coefficient
AssocP2 ==
    {[Zero2 EXCEPT ![c] = One] : c \in Cells2}
        \cup {Dense2, Mat2_transpose(Dense2)}

AssocP3 ==
    {[Zero3 EXCEPT ![c] = One] : c \in Cells3}
        \cup {Dense3, Mat3_transpose(Dense3)}

\* C8: matrix multiplication is associative: for the matrices m, n of a
\* call mul(m, n) and every matrix p, mul(mul(m, n), p) is
\* mul(m, mul(n, p)).
C8_MulAssociative ==
    /\ (Calls("Mat2", "mul") /\ Mat2_isMatrix2(Arg(2))) =>
          \A p \in AssocP2 :
             Mat2_mul(Result, p) = Mat2_mul(Arg(1), Mat2_mul(Arg(2), p))
    /\ (Calls("Mat3", "mul") /\ Mat3_isMatrix3(Arg(2))) =>
          \A p \in AssocP3 :
             Mat3_mul(Result, p) = Mat3_mul(Arg(1), Mat3_mul(Arg(2), p))

\* Mat3.mul has multiplied two matrices that do not commute, neither of
\* them the identity or zero
C8_Witness ==
    /\ Calls("Mat3", "mul")
    /\ Mat3_isMatrix3(Arg(2))
    /\ Arg(1) \notin {Mat3_Identity, Zero3}
    /\ Arg(2) \notin {Mat3_Identity, Zero3}
    /\ Result # Mat3_mul(Arg(2), Arg(1))
    /\ Result # Zero3

\* the sum over k of a[k] * b[k], k in 1..n
RECURSIVE SumProd(_, _, _)
SumProd(a, b, n) ==
    IF n = 0 THEN Zero ELSE Add(SumProd(a, b, n - 1), Mul(a[n], b[n]))

\* C9: mul(m, t) returns, for a matrix t, the matrix whose coefficient at
\* row i, column j is the dot product of row i of m and column j of t; for
\* a vector t, the vector whose i-th component is the dot product of row i
\* of m and t; for a number t, the matrix of the coefficients of m times t.
\* mul(m, Identity) and mul(Identity, m) are m.
C9_MulByShape ==
    /\ Calls("Mat2", "mul") =>
          LET m == Arg(1)
              t == Arg(2)
          IN  /\ Returns
              /\ Mat2_isMatrix2(t) =>
                    /\ Mat2_isMatrix2(Result)
                    /\ \A i, j \in 1..2 :
                          E2(Result, i, j) =
                             SumProd([k \in 1..2 |-> E2(m, i, k)],
                                     [k \in 1..2 |-> E2(t, k, j)], 2)
                    /\ t = Mat2_Identity => Result = m
                    /\ m = Mat2_Identity => Result = t
              /\ (DOMAIN t = {"x", "y"}) =>
                    /\ DOMAIN Result = {"x", "y"}
                    /\ \A i \in 1..2 :
                          Result[Comp2[i]] =
                             SumProd([k \in 1..2 |-> E2(m, i, k)],
                                     [k \in 1..2 |-> t[Comp2[k]]], 2)
              /\ ~IsObject(t) =>
                    /\ Mat2_isMatrix2(Result)
                    /\ \A c \in Cells2 : Result[c] = Mul(m[c], t)
    /\ Calls("Mat3", "mul") =>
          LET m == Arg(1)
              t == Arg(2)
          IN  /\ Returns
              /\ Mat3_isMatrix3(t) =>
                    /\ Mat3_isMatrix3(Result)
                    /\ \A i, j \in 1..3 :
                          E3(Result, i, j) =
                             SumProd([k \in 1..3 |-> E3(m, i, k)],
                                     [k \in 1..3 |-> E3(t, k, j)], 3)
                    /\ t = Mat3_Identity => Result = m
                    /\ m = Mat3_Identity => Result = t
              /\ (DOMAIN t = {"x", "y", "z"}) =>
                    /\ DOMAIN Result = {"x", "y", "z"}
                    /\ \A i \in 1..3 :
                          Result[Comp3[i]] =
                             SumProd([k \in 1..3 |-> E3(m, i, k)],
                                     [k \in 1..3 |-> t[Comp3[k]]], 3)
              /\ ~IsObject(t) =>
                    /\ Mat3_isMatrix3(Result)
                    /\ \A c \in Cells3 : Result[c] = Mul(m[c], t)

\* Mat2.mul has multiplied a matrix that is not symmetric by a vector of
\* two different non-zero components
C9_Witness ==
    /\ Calls("Mat2", "mul")
    /\ DOMAIN Arg(2) = {"x", "y"}
    /\ Arg(2).x # Arg(2).y /\ Arg(2).x # Zero /\ Arg(2).y # Zero
    /\ Arg(1).vx # Arg(1).uy
    /\ Returns
    /\ Result.x # Zero

\* C10: a call leaves every object that existed when it began, Mat2.Identity
\* and Mat3.Identity among them, with the coefficients it had, also when it
\* throws; a matrix or vector it returns is an object that did not exist
\* before; and between calls the two constants hold the identity matrices.
C10_InputsUntouchedResultFresh ==
    /\ Len(heap) >= Len(pre)
    /\ \A r \in 1..Len(pre) : heap[r] = pre[r]
    /\ heap[Mat2_IdentityRef.ref] = Mat2_Identity
    /\ heap[Mat3_IdentityRef.ref] = Mat3_Identity
    /\ (Returns /\ IsRef(ret.val)) =>
          /\ ret.val.ref \notin 1..Len(pre)
          /\ ret.val.ref \in 1..Len(heap)
    /\ ret.kind = "throw" => heap = pre

\* Mat3.mul has been given Mat3.Identity itself, twice, and has returned a
\* third object
C10_Witness ==
    /\ Calls("Mat3", "mul")
    /\ call.argv = <<Mat3_IdentityRef, Mat3_IdentityRef>>
    /\ Returns
    /\ ret.val # Mat3_IdentityRef
    /\ Result = Mat3_Identity

\* the horizontal part of n is zero: n is parallel to the world-up axis
HorizontalZero(n) == n.x = Zero /\ n.z = Zero

\* C11: for every n whose horizontal part is zero (n.x = 0 and n.z = 0)
\* buildTNB(n) takes the fallback branch: the first column of the matrix it
\* returns is the vector (-1, 0, 0), and no component of it is the NaN of a
\* zero-length vector normalized.
C11_FallbackWhenHorizontalZero ==
    (Calls("Mat3", "buildTNB") /\ HorizontalZero(Arg(1))) =>
        /\ Returns
        /\ Mat3_c1(Result) = Vec3_West
        /\ TangentProduced

\* C11, what the code does: for n with a zero horizontal part the fallback
\* is taken exactly when |n.y| is 1; for every other such n, the zero vector
\* among them, the generic branch normalizes the zero-length (0, 0, 0) and
\* every coefficient of the first and third columns is NaN.
C11_DegenerateUnlessUnitY ==
    (Calls("Mat3", "buildTNB") /\ HorizontalZero(Arg(1))) =>
        /\ Returns
        /\ Mat3_c2(Result) = Arg(1)
        /\ (Arg(1).y \in {One, I(-1)}) =>
              /\ Mat3_c1(Result) = Vec3_West
              /\ TangentProduced
        /\ (Arg(1).y \notin {One, I(-1)}) =>
              /\ \A k \in 1..3 : IsNaN(Mat3_c1(Result)[Comp3[k]])
              /\ \A k \in 1..3 : IsNaN(Mat3_c3(Result)[Comp3[k]])

\* buildTNB has been given (0, 2, 0), parallel to the world-up axis and not
\* of length 1, and the first column of its answer is NaN throughout
C11_DegenerateReached ==
    /\ Calls("Mat3", "buildTNB")
    /\ Arg(1) = [x |-> Zero, y |-> I(2), z |-> Zero]
    /\ Returns
    /\ \A k \in 1..3 : IsNaN(Mat3_c1(Result)[Comp3[k]])

\* the determinant d on the diagonal and 0 elsewhere, as mul(Identity, d)
\* forms it
Scalar2(d) == Mat2_mul(Mat2_Identity, d)

Scalar3(d) == Mat3_mul(Mat3_Identity, d)

\* the cofactor expansion of the 2x2 matrix m along row i, along column j
RowExpansion2(m, i) ==
    SumProd([k \in 1..2 |-> E2(m, i, k)],
            [k \in 1..2 |-> E2(Mat2_cofactor(m), i, k)], 2)

ColExpansion2(m, j) ==
    SumProd([k \in 1..2 |-> E2(m, k, j)],
            [k \in 1..2 |-> E2(Mat2_cofactor(m), k, j)], 2)

\* the cofactor expansion of the 3x3 matrix m along row i, along column j
RowExpansion3(m, i) ==
    SumProd([k \in 1..3 |-> E3(m, i, k)],
            [k \in 1..3 |-> E3(Mat3_cofactor(m), i, k)], 3)

ColExpansion3(m, j) ==
    SumProd([k \in 1..3 |-> E3(m, k, j)],
            [k \in 1..3 |-> E3(Mat3_cofactor(m), k, j)], 3)

\* C12: for every 2x2 and every 3x3 matrix m, singular or not,
\* mul(m, adjugate(m)) and mul(adjugate(m), m) are mul(Identity,
\* determinant(m)): for the matrix adjugate returns, for the matrix mul
\* returns when it is given m and adjugate(m); and the number determinant
\* returns is the cofactor expansion of m along every row and every column.
C12_MulAdjugateIsDeterminant ==
    /\ Calls("Mat2", "adjugate") =>
          /\ Mat2_mul(Arg(1), Result) = Scalar2(Mat2_determinant(Arg(1)))
          /\ Mat2_mul(Result, Arg(1)) = Scalar2(Mat2_determinant(Arg(1)))
    /\ Calls("Mat3", "adjugate") =>
          /\ Mat3_mul(Arg(1), Result) = Scalar3(Mat3_determinant(Arg(1)))
          /\ Mat3_mul(Result, Arg(1)) = Scalar3(Mat3_determinant(Arg(1)))
    /\ (/\ Calls("Mat2", "mul")
        /\ Mat2_isMatrix2(Arg(2))
        /\ Arg(2) = Mat2_adjugate(Arg(1))) =>
          Result = Scalar2(Mat2_determinant(Arg(1)))
    /\ (/\ Calls("Mat3", "mul")
        /\ Mat3_isMatrix3(Arg(2))
        /\ Arg(2) = Mat3_adjugate(Arg(1))) =>
          Result = Scalar3(Mat3_determinant(Arg(1)))
    /\ Calls("Mat2", "determinant") =>
          /\ \A i \in 1..2 : Result = RowExpansion2(Arg(1), i)
          /\ \A j \in 1..2 : Result = ColExpansion2(Arg(1), j)
    /\ Calls("Mat3", "determinant") =>
          /\ \A i \in 1..3 : Result = RowExpansion3(Arg(1), i)
          /\ \A j \in 1..3 : Result = ColExpansion3(Arg(1), j)

\* Mat3.mul has multiplied a singular matrix by its adjugate, neither of
\* them zero, and has returned the zero matrix
C12_Witness ==
    /\ Calls("Mat3", "mul")
    /\ Mat3_isMatrix3(Arg(2))
    /\ Arg(2) = Mat3_adjugate(Arg(1))
    /\ Mat3_determinant(Arg(1)) = Zero
    /\ Arg(1) # Zero3
    /\ Arg(2) # Zero3
    /\ Result = Zero3

====
